---- MODULE Spec2Model ----
(***************************************************************************)
(* Model of elite_programmer_ai.py: class MobiusAI.                        *)
(*                                                                         *)
(* State is the shared output directory (one working script and one cache  *)
(* record per project, one backup directory for all projects), the wall    *)
(* clock that names the backups, and the position of the one sequential    *)
(* build_and_self_improve run that is in progress.                         *)
(*                                                                         *)
(* Texts are sequences of tokens.  The tokens that the code searches for   *)
(* (the no-update marker, the code fence of three backquotes, the word     *)
(* python, white space) are tokens of their own; the opening fence with a  *)
(* language tag is the token FENCE followed by the token PY, so that a     *)
(* search for the bare fence also finds the start of a tagged fence, as in *)
(* the code.  "ok" stands for program text that exits zero, "bad" for program  *)
(* text that exits nonzero (or runs into the 10 s timeout).                *)
(***************************************************************************)
EXTENDS Integers, Sequences, FiniteSets, TLC

\* ------------------------------------------------------------------ bounds
MaxTime == 1
MaxRuns == 2
MaxRespLen == 3

\* ------------------------------------------------------------------ tokens
NOUPD == "NO UPDATE NEEDED"
FENCE == "<fence>"
PY    == "python"
WS    == " "
OK    == "ok"
BAD   == "bad"

NO_UPDATE_NEEDED == "NO_UPDATE_NEEDED"
NoRecord == "absent"

\* Two instances of MobiusAI with the default output_dir.  Projects are
\* numbered in the lexicographic order of the file names
\* "<project_name>_backup_<timestamp>.py" that their names give.
Projects == {1, 2}
Times == 0..MaxTime

\* A file: absent, or present with a text.
NoFile == [exists |-> FALSE, text |-> <<>>]
File(t) == [exists |-> TRUE, text |-> t]

\* The None of Python, and a str value.
None == [some |-> FALSE, text |-> <<>>]
Str(t) == [some |-> TRUE, text |-> t]

\* ------------------------------------------------------- string functions
\* pat in s
Contains(s, pat) ==
  \E i \in 1..(Len(s) - Len(pat) + 1) : SubSeq(s, i, i + Len(pat) - 1) = pat

\* s.find(pat) + 1, or 0 when pat is not in s
Find(s, pat) ==
  IF Contains(s, pat)
  THEN CHOOSE i \in 1..(Len(s) - Len(pat) + 1) :
         /\ SubSeq(s, i, i + Len(pat) - 1) = pat
         /\ \A j \in 1..(i - 1) : SubSeq(s, j, j + Len(pat) - 1) # pat
  ELSE 0

\* s.split(pat): the pieces of s between the occurrences of pat, left to right
\* (v is the value of s, bound once so that the recursion works on values)
RECURSIVE Split(_, _)
Split(s, pat) ==
  CHOOSE pieces \in
    { LET i == Find(v, pat)
      IN IF i = 0 THEN <<v>>
         ELSE <<SubSeq(v, 1, i - 1)>>
              \o Split(SubSeq(v, i + Len(pat), Len(v)), pat)
      : v \in {s} } : TRUE

\* s.strip()
RECURSIVE LStrip(_)
LStrip(s) == IF s # <<>> /\ Head(s) = WS THEN LStrip(Tail(s)) ELSE s
RECURSIVE RStrip(_)
RStrip(s) ==
  IF s # <<>> /\ s[Len(s)] = WS THEN RStrip(SubSeq(s, 1, Len(s) - 1)) ELSE s
Strip(s) == LStrip(RStrip(s))

\* update_suggestion.split(FENCE PY)[1].split(FENCE)[0].strip()
ExtractCode(s) == Strip(Split(Split(s, <<FENCE, PY>>)[2], <<FENCE>>)[1])

\* the text apply_update writes for a suggestion
CleanCode(s) == IF Contains(s, <<FENCE, PY>>) THEN ExtractCode(s) ELSE s

\* ------------------------------------------------------------ file system
\* The name of a backup file: <<project, timestamp>>.  sorted() compares the
\* project name first and the timestamp second.
BackupNames == Projects \X Times
NameLess(a, b) == a[1] < b[1] \/ (a[1] = b[1] /\ a[2] < b[2])

\* os.listdir(self.backup_dir)
ListDir(w) == {n \in BackupNames : w.backups[n].exists}

\* Faulty variant of the choice rollback makes: the listing is sorted in
\* ascending order (reverse=True left out), so the oldest backup is taken.
LatestAscending(names) ==
  CHOOSE n \in names : \A m \in names : m = n \/ NameLess(n, m)

\* sorted(os.listdir(self.backup_dir), reverse=True)[0]
Latest(names) == CHOOSE n \in names : \A m \in names : m = n \/ NameLess(m, n)

\* The outcome of one completion call: a response text, a timeout, or any
\* other exception (transport error, content None, ...).
ApiText(t) == [kind |-> "text", text |-> t]
ApiTimeout == [kind |-> "timeout", text |-> <<>>]
ApiError == [kind |-> "error", text |-> <<>>]

\* shutil.copy(file_path, backup_path) in backup_code
BackupCodeRaises(w, p, io) == io = "fail" \/ ~w.script[p].exists

BackupCode(w, p, t, io) ==
  IF BackupCodeRaises(w, p, io)
  THEN [w |-> w, raised |-> TRUE]
  ELSE [w |-> [w EXCEPT !.backups[<<p, t>>] = File(w.script[p].text),
                        !.log = Append(@, "backup")],
        raised |-> FALSE]

\* Faulty variant of check_for_necessary_update: the cached verdict is not
\* consulted (lines 34-39 left out).
CheckIgnoringCache(w, p, api) ==
  IF ~w.script[p].exists
  THEN [w |-> w, ret |-> None, called |-> FALSE]
  ELSE IF api.kind # "text"
  THEN [w |-> w, ret |-> None, called |-> TRUE]
  ELSE LET update_suggestion == Strip(api.text)
       IN IF Contains(update_suggestion, <<NOUPD>>)
          THEN [w |-> [w EXCEPT !.cache[p] = NO_UPDATE_NEEDED,
                                !.log = Append(@, "cache")],
                ret |-> None, called |-> TRUE]
          ELSE [w |-> w, ret |-> Str(update_suggestion), called |-> TRUE]

\* Faulty variant of check_for_necessary_update: a timeout is taken for a
\* no-update verdict and cached.
CheckCachingTimeout(w, p, api) ==
  IF w.cache[p] = NO_UPDATE_NEEDED
  THEN [w |-> w, ret |-> None, called |-> FALSE]
  ELSE IF ~w.script[p].exists
  THEN [w |-> w, ret |-> None, called |-> FALSE]
  ELSE IF api.kind = "timeout"
  THEN [w |-> [w EXCEPT !.cache[p] = NO_UPDATE_NEEDED,
                        !.log = Append(@, "cache")],
        ret |-> None, called |-> TRUE]
  ELSE IF api.kind # "text"
  THEN [w |-> w, ret |-> None, called |-> TRUE]
  ELSE LET update_suggestion == Strip(api.text)
       IN IF Contains(update_suggestion, <<NOUPD>>)
          THEN [w |-> [w EXCEPT !.cache[p] = NO_UPDATE_NEEDED,
                                !.log = Append(@, "cache")],
                ret |-> None, called |-> TRUE]
          ELSE [w |-> w, ret |-> Str(update_suggestion), called |-> TRUE]

\* Faulty variant of check_for_necessary_update: the no-update verdict is
\* returned but not written to the cache file (lines 65-66 left out).
CheckNotCachingVerdict(w, p, api) ==
  IF w.cache[p] = NO_UPDATE_NEEDED
  THEN [w |-> w, ret |-> None, called |-> FALSE]
  ELSE IF ~w.script[p].exists
  THEN [w |-> w, ret |-> None, called |-> FALSE]
  ELSE IF api.kind # "text"
  THEN [w |-> w, ret |-> None, called |-> TRUE]
  ELSE LET update_suggestion == Strip(api.text)
       IN IF Contains(update_suggestion, <<NOUPD>>)
          THEN [w |-> w, ret |-> None, called |-> TRUE]
          ELSE [w |-> w, ret |-> Str(update_suggestion), called |-> TRUE]

\* check_for_necessary_update
CheckForNecessaryUpdate(w, p, api) ==
  IF w.cache[p] = NO_UPDATE_NEEDED
  THEN [w |-> w, ret |-> None, called |-> FALSE]
  ELSE IF ~w.script[p].exists
  THEN \* open(file_path, "r") raises inside the try block
       [w |-> w, ret |-> None, called |-> FALSE]
  ELSE IF api.kind # "text"
  THEN [w |-> w, ret |-> None, called |-> TRUE]
  ELSE LET update_suggestion == Strip(api.text)
       IN IF Contains(update_suggestion, <<NOUPD>>)
          THEN [w |-> [w EXCEPT !.cache[p] = NO_UPDATE_NEEDED,
                                !.log = Append(@, "cache")],
                ret |-> None, called |-> TRUE]
          ELSE [w |-> w, ret |-> Str(update_suggestion), called |-> TRUE]

\* open(file_path, "w").write(text)
WriteScript(w, p, text) ==
  [w EXCEPT !.script[p] = File(text), !.log = Append(@, "write")]

\* Faulty variant of apply_update: the script is overwritten first and backed
\* up afterwards (lines 84 and 90-91 exchanged).
ApplyUpdateWriteFirst(w, p, t, api, io) ==
  LET c == CheckForNecessaryUpdate(w, p, api)
  IN IF ~c.ret.some \/ c.ret.text = <<>>
     THEN [w |-> c.w, raised |-> FALSE, called |-> c.called]
     ELSE LET b == BackupCode(WriteScript(c.w, p, CleanCode(c.ret.text)), p, t, io)
          IN [w |-> b.w, raised |-> b.raised, called |-> c.called]

\* Faulty variant of apply_update: the exception of backup_code does not keep
\* the write from happening (the write sits in a finally clause).
ApplyUpdateWritingDespiteError(w, p, t, api, io) ==
  LET c == CheckForNecessaryUpdate(w, p, api)
  IN IF ~c.ret.some \/ c.ret.text = <<>>
     THEN [w |-> c.w, raised |-> FALSE, called |-> c.called]
     ELSE LET b == BackupCode(c.w, p, t, io)
          IN [w |-> WriteScript(b.w, p, CleanCode(c.ret.text)),
              raised |-> b.raised, called |-> c.called]

\* Faulty variant of apply_update: the backup is made on entry, before the
\* suggestion is asked for (line 84 moved above line 80).
ApplyUpdateBackupOnEntry(w, p, t, api, io) ==
  LET b == BackupCode(w, p, t, io)
      c == CheckForNecessaryUpdate(b.w, p, api)
  IN IF b.raised
     THEN [w |-> b.w, raised |-> TRUE, called |-> FALSE]
     ELSE IF ~c.ret.some \/ c.ret.text = <<>>
     THEN [w |-> c.w, raised |-> FALSE, called |-> c.called]
     ELSE [w |-> WriteScript(c.w, p, CleanCode(c.ret.text)),
           raised |-> FALSE, called |-> c.called]

\* apply_update
ApplyUpdate(w, p, t, api, io) ==
  LET c == CheckForNecessaryUpdate(w, p, api)
  IN IF ~c.ret.some \/ c.ret.text = <<>>
     THEN [w |-> c.w, raised |-> FALSE, called |-> c.called]
     ELSE LET b == BackupCode(c.w, p, t, io)
          IN IF b.raised
             THEN [w |-> b.w, raised |-> TRUE, called |-> c.called]
             ELSE [w |-> WriteScript(b.w, p, CleanCode(c.ret.text)),
                   raised |-> FALSE, called |-> c.called]

\* rollback
Rollback(w, p) ==
  LET backups_ == ListDir(w)
  IN IF backups_ = {}
     THEN [w |-> [w EXCEPT !.log = Append(@, "no backup")], ret |-> "None"]
     ELSE [w |-> [w EXCEPT !.script[p] = File(w.backups[Latest(backups_)].text),
                           !.log = Append(@, "restore")],
           ret |-> "None"]

\* execute_code_directly: the results the run of a file can give
ExitsZero(text) == \A i \in 1..Len(text) : text[i] \in {OK, WS}
ExecuteCodeDirectly(f) == f.exists /\ ExitsZero(f.text)

\* ------------------------------------------------------------------ state
VARIABLES
  script,    \* script[p]: the file <output_dir>/<p>.py
  backups,   \* backups[n]: the file <output_dir>/backups/<n>.py
  cache,     \* cache[p]: the content of <p>_update_cache.txt, or NoRecord
  now,       \* the wall clock as backup_code last read it, in seconds
  pc,        \* position of the run of build_and_self_improve in progress
  cur,       \* the project of that run (self.project_name)
  ret,       \* what the run returned: "True", "False", "raised", or "-"
  adv,       \* the completion service this run talks to
  runs,      \* number of runs started
  cnt,       \* per run: calls made of each collaborator
  run0,      \* per run: what the output directory held when the run started
  lastUpd,   \* the most recent apply_update call
  lastRb,    \* the most recent rollback call
  trace,     \* per run: the calls made so far, in order
  resp       \* the response text handed to apply_update by ParseResponse

vars == <<script, backups, cache, now, pc, cur, ret, adv, runs, cnt, run0,
          lastUpd, lastRb, trace, resp>>

World == [script |-> script, backups |-> backups, cache |-> cache, log |-> <<>>]

\* Response texts the completion service may give.
RespNoUpdate    == <<NOUPD>>
RespFencedOk    == <<FENCE, PY, WS, OK, WS, FENCE>>
RespFencedBad   == <<FENCE, PY, WS, BAD, WS, FENCE>>
RespPlainBad    == <<BAD>>
RespBlank       == <<WS>>
RespFencedNoUpd == <<FENCE, PY, OK, FENCE, NOUPD>>

Responses == {RespNoUpdate, RespFencedOk, RespFencedBad, RespPlainBad,
              RespBlank, RespFencedNoUpd}

\* The completion service of a run: "any" may answer anything or fail;
\* "zero" always returns a fenced block with a program that exits zero;
\* "nonzero" always returns code that exits nonzero; "noupdate" always
\* reports that no update is needed.
Advisors == {"any", "zero", "nonzero", "noupdate"}
ApiOutcomes(a) ==
  CASE a = "zero"     -> {ApiText(RespFencedOk)}
    [] a = "nonzero"  -> {ApiText(RespFencedBad), ApiText(RespPlainBad)}
    [] a = "noupdate" -> {ApiText(RespNoUpdate), ApiText(RespFencedNoUpd)}
    [] OTHER         -> {ApiText(r) : r \in Responses} \cup {ApiTimeout, ApiError}

IoOutcomes == {"ok", "fail"}

InitTexts == {<<OK>>, <<BAD>>}
InitFiles == {NoFile} \cup {File(t) : t \in InitTexts}

ZeroCnt == [update |-> 0, exec |-> 0, restore |-> 0, advisory |-> 0, backup |-> 0]
NoUpd == [p |-> 0, pre |-> NoFile, cached |-> FALSE, called |-> FALSE,
          api |-> "-", raised |-> FALSE, log |-> <<>>]
NoRb == [p |-> 0, pre |-> NoFile, listed |-> {}, log |-> <<>>, ret |-> "-"]
NoRun == [existed |-> FALSE, cached |-> FALSE, dir |-> {}, sole |-> NoFile]

Init ==
  /\ script \in [Projects -> InitFiles]
  /\ backups \in {b \in [BackupNames -> InitFiles] :
                    \A n \in BackupNames : n[2] # 0 => b[n] = NoFile}
  /\ cache \in [Projects -> {NoRecord, NO_UPDATE_NEEDED}]
  /\ now = 0
  /\ pc = "Idle"
  /\ cur = 1
  /\ ret = "-"
  /\ adv = "any"
  /\ runs = 0
  /\ cnt = ZeroCnt
  /\ run0 = NoRun
  /\ lastUpd = NoUpd
  /\ lastRb = NoRb
  /\ trace = <<>>
  /\ resp = <<>>

\* ---------------------------------------------------------------- actions
\* build_and_self_improve is entered: lines 126-129
StartRun(p, a) ==
  /\ pc \in {"Idle", "Success", "Failed", "Raised"}
  /\ runs < MaxRuns
  /\ runs' = runs + 1
  /\ cur' = p
  /\ adv' = a
  /\ ret' = "-"
  /\ cnt' = ZeroCnt
  /\ run0' = [existed |-> script[p].exists,
              cached |-> cache[p] = NO_UPDATE_NEEDED,
              dir |-> ListDir(World),
              sole |-> IF Cardinality(ListDir(World)) = 1
                       THEN backups[CHOOSE n \in ListDir(World) : TRUE]
                       ELSE NoFile]
  /\ pc' = IF script[p].exists THEN "Updating" ELSE "Generating"
  /\ lastUpd' = NoUpd
  /\ lastRb' = NoRb
  /\ trace' = <<>>
  /\ UNCHANGED <<resp, script, backups, cache, now>>

\* one call self.apply_update(script_path), leading to position next; t is
\* the time that time.strftime reads in backup_code: not before the last one
CallApplyUpdate(next) ==
  \E api \in ApiOutcomes(adv), io \in IoOutcomes, t \in now..MaxTime :
    \E r \in {ApplyUpdate(World, cur, t, api, io)} :
    LET made == "backup" \in {r.w.log[i] : i \in DOMAIN r.w.log}
    IN /\ script' = r.w.script
       /\ now' = IF made THEN t ELSE now
       /\ backups' = r.w.backups
       /\ cache' = r.w.cache
       /\ lastUpd' = [p |-> cur, pre |-> script[cur],
                      cached |-> cache[cur] = NO_UPDATE_NEEDED,
                      called |-> r.called,
                      api |-> IF r.called THEN api.kind ELSE "-",
                      raised |-> r.raised,
                      log |-> r.w.log]
       /\ cnt' = [cnt EXCEPT !.update = @ + 1,
                             !.advisory = @ + (IF r.called THEN 1 ELSE 0),
                             !.backup = @ + (IF made THEN 1 ELSE 0)]
       /\ pc' = IF r.raised THEN "Raised" ELSE next
       /\ ret' = IF r.raised THEN "raised" ELSE ret
       /\ trace' = Append(trace, "update")
       /\ UNCHANGED <<resp, cur, adv, runs, run0, lastRb>>

\* line 131
Generate == pc = "Generating" /\ CallApplyUpdate("Updating")

\* line 134
Update == pc = "Updating" /\ CallApplyUpdate("Executing")

\* Faulty variant of the first execution: subprocess.run without timeout, so
\* that a script which does not exit never lets the call return.
ExecuteWithoutTimeout ==
  /\ pc = "Executing"
  /\ ExecuteCodeDirectly(script[cur])
  /\ cnt' = [cnt EXCEPT !.exec = @ + 1]
  /\ pc' = "Success" /\ ret' = "True" /\ trace' = Append(trace, "exec ok")
  /\ UNCHANGED <<resp, script, backups, cache, now, cur, adv, runs, run0, lastUpd, lastRb>>

\* lines 137-138 and 148-149
Execute ==
  /\ pc = "Executing"
  /\ cnt' = [cnt EXCEPT !.exec = @ + 1]
  /\ IF ExecuteCodeDirectly(script[cur])
     THEN pc' = "Success" /\ ret' = "True" /\ trace' = Append(trace, "exec ok")
     ELSE pc' = "Repairing" /\ ret' = ret /\ trace' = Append(trace, "exec failed")
  /\ UNCHANGED <<resp, script, backups, cache, now, cur, adv, runs, run0, lastUpd, lastRb>>

\* Faulty variant of the repair step: no update before the second execution.
RepairWithoutUpdate ==
  /\ pc = "Repairing"
  /\ pc' = "ReExecuting"
  /\ trace' = Append(trace, "skip")
  /\ UNCHANGED <<resp, script, backups, cache, now, cur, ret, adv, runs, cnt, run0,
                 lastUpd, lastRb>>

\* line 140
Repair == pc = "Repairing" /\ CallApplyUpdate("ReExecuting")

\* Faulty variant of lines 141-143: a failed second execution leads to
\* another repair attempt instead of the rollback.
ReExecuteRetrying ==
  /\ pc = "ReExecuting"
  /\ cnt' = [cnt EXCEPT !.exec = @ + 1]
  /\ IF ExecuteCodeDirectly(script[cur])
     THEN pc' = "Success" /\ ret' = "True" /\ trace' = Append(trace, "exec ok")
     ELSE pc' = "Repairing" /\ ret' = ret /\ trace' = Append(trace, "exec failed")
  /\ UNCHANGED <<resp, script, backups, cache, now, cur, adv, runs, run0, lastUpd, lastRb>>

\* lines 141-143 and 148-149
ReExecute ==
  /\ pc = "ReExecuting"
  /\ cnt' = [cnt EXCEPT !.exec = @ + 1]
  /\ IF ExecuteCodeDirectly(script[cur])
     THEN pc' = "Success" /\ ret' = "True" /\ trace' = Append(trace, "exec ok")
     ELSE pc' = "RollingBack" /\ ret' = ret /\ trace' = Append(trace, "exec failed")
  /\ UNCHANGED <<resp, script, backups, cache, now, cur, adv, runs, run0, lastUpd, lastRb>>

\* Faulty variant of lines 144-149: no return after the rollback, so the run
\* falls through to the final return True.
RollBackReturningTrue ==
  /\ pc = "RollingBack"
  /\ LET r == Rollback(World, cur)
     IN /\ script' = r.w.script
        /\ lastRb' = [p |-> cur, pre |-> script[cur], listed |-> ListDir(World),
                      log |-> r.w.log, ret |-> r.ret]
  /\ cnt' = [cnt EXCEPT !.restore = @ + 1]
  /\ pc' = "Success"
  /\ ret' = "True"
  /\ trace' = Append(trace, "rollback")
  /\ UNCHANGED <<resp, backups, cache, now, cur, adv, runs, run0, lastUpd>>

\* lines 144-146
RollBack ==
  /\ pc = "RollingBack"
  /\ LET r == Rollback(World, cur)
     IN /\ script' = r.w.script
        /\ lastRb' = [p |-> cur, pre |-> script[cur], listed |-> ListDir(World),
                      log |-> r.w.log, ret |-> r.ret]
  /\ cnt' = [cnt EXCEPT !.restore = @ + 1]
  /\ pc' = "Failed"
  /\ ret' = "False"
  /\ trace' = Append(trace, "rollback")
  /\ UNCHANGED <<resp, backups, cache, now, cur, adv, runs, run0, lastUpd>>

Next ==
  \/ \E p \in Projects, a \in Advisors : StartRun(p, a)
  \/ Generate
  \/ Update
  \/ Execute
  \/ Repair
  \/ ReExecute
  \/ RollBack

Spec == Init /\ [][Next]_vars

\* A run that has been entered goes on: the code is sequential, the completion
\* call returns or times out within 15 s (line 59) and the subprocess within
\* 10 s (line 99).  Nothing obliges anybody to start a run.
RunStep == Generate \/ Update \/ Execute \/ Repair \/ ReExecute \/ RollBack
FairSpec == Spec /\ WF_vars(RunStep)

\* --------------------------------------------- response parsing on its own
\* Every text of at most MaxRespLen tokens as the content of the completion
\* response (line 62).
Tokens == {NOUPD, FENCE, PY, WS, OK, BAD}
RespTexts == UNION {[1..n -> Tokens] : n \in 0..MaxRespLen}

\* One instance whose script exists, with no backup and no cached verdict.
InitParse ==
  /\ script = [p \in Projects |-> IF p = 1 THEN File(<<BAD>>) ELSE NoFile]
  /\ backups = [n \in BackupNames |-> NoFile]
  /\ cache = [p \in Projects |-> NoRecord]
  /\ now = 0
  /\ pc = "Idle"
  /\ cur = 1
  /\ ret = "-"
  /\ adv = "any"
  /\ runs = 0
  /\ cnt = ZeroCnt
  /\ run0 = NoRun
  /\ lastUpd = NoUpd
  /\ lastRb = NoRb
  /\ trace = <<>>
  /\ resp = <<>>

\* apply_update called once, the completion call answering with text r
ParseResponse ==
  /\ pc = "Idle"
  /\ \E r \in RespTexts, io \in IoOutcomes :
       \E u \in {ApplyUpdate(World, cur, now, ApiText(r), io)} :
         /\ resp' = r
         /\ script' = u.w.script
         /\ backups' = u.w.backups
         /\ cache' = u.w.cache
         /\ lastUpd' = [p |-> cur, pre |-> script[cur],
                        cached |-> cache[cur] = NO_UPDATE_NEEDED,
                        called |-> u.called,
                        api |-> IF u.called THEN "text" ELSE "-",
                        raised |-> u.raised,
                        log |-> u.w.log]
         /\ pc' = IF u.raised THEN "Raised" ELSE "Parsed"
  /\ UNCHANGED <<now, cur, ret, adv, runs, cnt, run0, lastRb, trace>>

NextParse == ParseResponse
SpecParse == InitParse /\ [][NextParse]_vars

\* ------------------------------------------------------------ properties
Terminal == pc \in {"Success", "Failed"}
Has(log, e) == \E i \in DOMAIN log : log[i] = e
Count(log, e) == Cardinality({i \in DOMAIN log : log[i] = e})
OwnBackups(names, p) == {n \in names : n[1] = p}
Newest(names) == CHOOSE n \in names : \A m \in names : m[2] <= n[2]

\* C1: every apply_update call that overwrites the script makes exactly one
\* backup, makes it before the overwrite, and right after the call the backup
\* directory holds, under the name of that call, a snapshot equal to the
\* content of the script right before the call.
BackupBeforeOverwrite ==
  Has(lastUpd.log, "write") =>
    /\ lastUpd.log = <<"backup", "write">>
    /\ Count(lastUpd.log, "backup") = 1
    /\ lastUpd.pre.exists
    /\ backups[<<lastUpd.p, now>>] = lastUpd.pre

\* C1 witness: an update has replaced the script by a different text.
BackupBeforeOverwriteWitness ==
  /\ Has(lastUpd.log, "write")
  /\ script[lastUpd.p] # lastUpd.pre
  /\ backups[<<lastUpd.p, now>>] = lastUpd.pre

\* C2 (as claimed): with a completion service that always returns code that
\* exits nonzero, no cached verdict and exactly one backup in place when the
\* run starts, a backup of this project whose text exits zero (and which is
\* still in place, untouched, when the run ends), the run returns False and
\* the script ends with the text of that backup.
FailurePathRestoresPreexisting ==
  ( /\ Terminal
    /\ adv = "nonzero"
    /\ ~run0.cached
    /\ run0.dir = {<<cur, 0>>}
    /\ ExitsZero(run0.sole.text)
    /\ backups[<<cur, 0>>] = run0.sole )
  => (ret = "False" /\ script[cur] = run0.sole)

\* C3 (as claimed): after a rollback for a project that had two or more
\* backups, the script holds the text of the backup of that project with the
\* greatest timestamp.
RollbackRestoresNewestOwn ==
  ( /\ pc = "Failed"
    /\ Cardinality(OwnBackups(lastRb.listed, lastRb.p)) >= 2 )
  => script[lastRb.p] = backups[Newest(OwnBackups(lastRb.listed, lastRb.p))]

\* C4: once the record NO_UPDATE_NEEDED is in the cache of a project, no step
\* of the program removes or changes it, and every apply_update call for that
\* project returns without a completion call (and without touching script or
\* backups).
CacheSuppression ==
  [][ /\ \A p \in Projects :
           cache[p] = NO_UPDATE_NEEDED => cache'[p] = NO_UPDATE_NEEDED
      /\ (cnt'.update = cnt.update + 1 /\ cache[cur] = NO_UPDATE_NEEDED)
           => /\ cnt'.advisory = cnt.advisory
              /\ ~lastUpd'.called
              /\ script' = script
              /\ backups' = backups ]_vars

\* C4 witness: the verdict was written during this run and the repair step
\* then skipped the completion call.
CacheSuppressionWitness ==
  /\ pc = "ReExecuting"
  /\ ~run0.cached
  /\ lastUpd.cached
  /\ ~lastUpd.called
  /\ cnt.advisory = 1

\* C5 (as claimed): a run whose two executions both fail makes exactly two
\* executions, exactly two apply_update calls and then one rollback.
BoundedRetriesTwoUpdates ==
  pc = "Failed" => (cnt.exec = 2 /\ cnt.update = 2 /\ cnt.restore = 1)

\* C5 (amended): a run whose two executions both fail makes exactly two
\* executions and then exactly one rollback; it makes two apply_update calls
\* when the script existed at the start of the run and three when it did not.
BoundedRetries ==
  /\ pc = "RollingBack" =>
       /\ cnt.exec = 2
       /\ cnt.update = (IF run0.existed THEN 2 ELSE 3)
       /\ cnt.restore = 0
  /\ pc = "Failed" =>
       /\ cnt.exec = 2
       /\ cnt.update = (IF run0.existed THEN 2 ELSE 3)
       /\ cnt.restore = 1
  /\ cnt.restore >= 1 => pc = "Failed"

\* C5 witness: a failed run that started without a script.
BoundedRetriesWitness ==
  pc = "Failed" /\ ~run0.existed /\ cnt.update = 3 /\ cnt.restore = 1

\* C6 (as claimed): with a completion service that always returns a fenced
\* block holding a program that exits zero, and no cached verdict, a run
\* returns True, the script ends as the text of the block, and a backup was
\* made if the script existed before.
EndToEndSuccess ==
  (Terminal /\ adv = "zero" /\ ~run0.cached)
  => /\ ret = "True"
     /\ script[cur] = File(ExtractCode(RespFencedOk))
     /\ (run0.existed => cnt.backup >= 1)

\* C7 (as claimed, first part): a rollback for a project without any backup
\* leaves the script as it was, in content and in existence.
NoBackupRestoreIsNoOp ==
  ( /\ pc = "Failed"
    /\ OwnBackups(lastRb.listed, lastRb.p) = {} )
  => script[lastRb.p] = lastRb.pre

\* C8 (as claimed): an apply_update call for a script that does not exist,
\* with no cached verdict, calls the completion service; when that service
\* returns code, the script is created with the code and no backup is made.
FirstTimeGeneration ==
  (lastUpd.p \in Projects /\ ~lastUpd.pre.exists /\ ~lastUpd.cached)
  => /\ lastUpd.called
     /\ adv = "zero" =>
          /\ script[lastUpd.p] = File(ExtractCode(RespFencedOk))
          /\ ~Has(lastUpd.log, "backup")

\* C9: an apply_update call whose completion call times out or fails returns
\* normally and leaves script, backup directory and cache record unchanged.
AdvisoryUnavailableAbsorbed ==
  [][ (cnt'.update = cnt.update + 1 /\ lastUpd'.api \in {"timeout", "error"})
      => /\ script' = script
         /\ backups' = backups
         /\ cache' = cache
         /\ ~lastUpd'.raised
         /\ pc' # "Raised"
         /\ ret' = ret ]_vars

\* C9 witness: the completion call of the last apply_update was made and
\* timed out, and the run went on to execute the script.
AdvisoryUnavailableWitness ==
  lastUpd.called /\ lastUpd.api = "timeout" /\ pc = "Executing"

\* C10 (as claimed): no step changes a backup file that exists.
BackupsImmutable ==
  [][ \A n \in BackupNames : backups[n].exists => backups'[n] = backups[n] ]_vars

\* C11 (as claimed): a rollback for project P that restores a backup restores
\* one whose name carries the project name of P.
RestoreProjectScoped ==
  (pc = "Failed" /\ Has(lastRb.log, "restore"))
  => Latest(lastRb.listed)[1] = lastRb.p

\* C12: a run that completes returns True exactly when one of its (at most
\* two) executions succeeded, and False exactly when both failed; rollback is
\* called in the runs whose two executions failed and in no other, and the
\* run then returns False whether or not rollback found a backup.
ControllerOutcome ==
  /\ ret = "True" <=> pc = "Success"
  /\ ret = "False" <=> pc = "Failed"
  /\ pc = "Success" <=>
       (Has(trace, "exec ok") /\ Count(trace, "exec failed") <= 1)
  /\ pc = "Failed" <=>
       (Count(trace, "exec failed") = 2 /\ Has(trace, "rollback"))
  /\ Has(trace, "rollback") =>
       (Count(trace, "exec failed") = 2 /\ ~Has(trace, "exec ok"))
  /\ (Count(trace, "exec failed") = 2 /\ ~Has(trace, "rollback"))
       => pc = "RollingBack"
  /\ Has(trace, "rollback") <=> cnt.restore = 1
  /\ cnt.restore <= 1

\* C12 witness: a run has returned False after a rollback that found no
\* backup.
ControllerOutcomeWitness ==
  /\ pc = "Failed"
  /\ ret = "False"
  /\ lastRb.log = <<"no backup">>
  /\ trace[Len(trace)] = "rollback"

\* C13: when backup_code raises during apply_update, the exception ends the
\* run (the position Raised, nothing returned), the script still has the
\* content it had before the call, and no execution or rollback follows in
\* that run.
FailedBackupBlocksOverwrite ==
  /\ lastUpd.raised <=> pc = "Raised"
  /\ pc = "Raised" =>
       /\ ret = "raised"
       /\ script[cur] = lastUpd.pre
       /\ ~Has(lastUpd.log, "write")
       /\ ~Has(lastUpd.log, "backup")
       /\ trace[Len(trace)] = "update"
       /\ ~Has(trace, "rollback")
       /\ cnt.restore = 0

\* C13 witness: the completion service suggested code, the backup failed and
\* the run ended with the exception.
FailedBackupWitness ==
  /\ pc = "Raised"
  /\ lastUpd.raised
  /\ lastUpd.api = "text"
  /\ lastUpd.pre.exists

\* C14: an apply_update call whose completion call reports that no update is
\* needed (alone or next to a code block) writes NO_UPDATE_NEEDED to the cache
\* record of the project, makes no backup and leaves the script unchanged.
NoUpdateVerdictHandling ==
  [][ (cnt'.update = cnt.update + 1 /\ adv = "noupdate" /\ lastUpd'.called)
      => /\ cache'[cur] = NO_UPDATE_NEEDED
         /\ lastUpd'.log = <<"cache">>
         /\ script' = script
         /\ backups' = backups
         /\ cnt'.backup = cnt.backup
         /\ pc' # "Raised" ]_vars

\* C14 witness: the verdict has just been written by a completion call of a
\* run that started without a cached verdict.
NoUpdateVerdictWitness ==
  /\ adv = "noupdate"
  /\ ~run0.cached
  /\ lastUpd.called
  /\ ~lastUpd.cached
  /\ cache[cur] = NO_UPDATE_NEEDED
  /\ pc = "Executing"

\* The collaborator a trace entry is a call of.
Kind(e) == IF e \in {"exec ok", "exec failed"} THEN "exec" ELSE e
FullSequence(existed) ==
  (IF existed THEN <<>> ELSE <<"update">>)
    \o <<"update", "exec", "update", "exec", "rollback">>

\* C15: the calls of a run are, in order, a prefix of: apply_update (only when
\* the script was absent at the start), apply_update, execute, apply_update,
\* execute, rollback; every execution directly follows an apply_update, a
\* successful execution and the rollback are each the last call of the run.
StepOrdering ==
  /\ Len(trace) <= Len(FullSequence(run0.existed))
  /\ \A i \in 1..Len(trace) :
       /\ Kind(trace[i]) = FullSequence(run0.existed)[i]
       /\ Kind(trace[i]) = "exec" => (i > 1 /\ trace[i - 1] = "update")
       /\ trace[i] \in {"exec ok", "rollback"} => i = Len(trace)

\* C15 witness: a run that started without a script has made all six calls.
StepOrderingWitness ==
  /\ pc = "Failed"
  /\ ~run0.existed
  /\ Len(trace) = 6
  /\ trace[6] = "rollback"

Running == pc \in {"Generating", "Updating", "Executing", "Repairing",
                   "ReExecuting", "RollingBack"}

\* The number of steps a run has left at most.
Rank(at) ==
  CASE at = "Generating"  -> 6
    [] at = "Updating"    -> 5
    [] at = "Executing"   -> 4
    [] at = "Repairing"   -> 3
    [] at = "ReExecuting" -> 2
    [] at = "RollingBack" -> 1
    [] OTHER              -> 0

\* C16: every run that is entered ends: it returns True or False unless a
\* backup copy failed, the one storage failure that ends it by an exception
\* (the script was there to copy, so the copy itself failed); the steps made
\* plus the steps left never exceed six; and at no point has the run made
\* more than three completion calls, two executions, three backups or one
\* rollback.
TerminationBoundedCost ==
  /\ [](/\ cnt.advisory <= 3 /\ cnt.exec <= 2
        /\ cnt.backup <= 3 /\ cnt.restore <= 1
        /\ Len(trace) + Rank(pc) <= 6
        /\ pc = "Raised" => (lastUpd.raised /\ lastUpd.pre.exists))
  /\ (Running ~> (Terminal \/ pc = "Raised"))

\* C16 witness: a run has ended after two completion calls, two backups, two
\* executions and a rollback.
TerminationWitness ==
  /\ pc = "Failed"
  /\ cnt.advisory = 2
  /\ cnt.backup = 2
  /\ cnt.exec = 2
  /\ cnt.restore = 1

\* The first fenced block of a text as the specification reads it: from the
\* first fence to the next one, the language tag after the opening fence, if
\* there is one, not being part of the contents.
Fences(s) == {i \in 1..Len(s) : s[i] = FENCE}
HasBlock(s) == Cardinality(Fences(s)) >= 2
Opening(s) == CHOOSE i \in Fences(s) : \A j \in Fences(s) : i <= j
Closing(s) == CHOOSE i \in Fences(s) \ {Opening(s)} :
                \A j \in Fences(s) \ {Opening(s)} : i <= j
FirstBlock(s) ==
  LET o == Opening(s)
      c == Closing(s)
      from == IF o + 1 < c /\ s[o + 1] = PY THEN o + 2 ELSE o + 1
  IN SubSeq(s, from, c - 1)

\* C17: whatever the response text, (1) with the marker in it the verdict is
\* cached and the script is left as it was; (2) otherwise, with a fenced block
\* in it, tagged or not, the script holds the contents of the first block;
\* (3) otherwise, with no fence in it at all, the script holds the response.
\* Contents and response are compared without the white space around them,
\* and a blank response is left out of (3).
ResponseParsing ==
  (pc = "Parsed" /\ lastUpd.called) =>
    IF Contains(resp, <<NOUPD>>)
    THEN cache[cur] = NO_UPDATE_NEEDED /\ script[cur] = lastUpd.pre
    ELSE IF HasBlock(resp)
    THEN script[cur] = File(Strip(FirstBlock(resp)))
    ELSE (Fences(resp) = {} /\ Strip(resp) # <<>>)
           => script[cur] = File(Strip(resp))

CachedVerdictDisablesRepair ==
  /\ [][ (Running /\ cache[cur] = NO_UPDATE_NEEDED)
           => /\ backups' = backups
              /\ cnt'.backup = cnt.backup
              /\ cache'[cur] = NO_UPDATE_NEEDED
              /\ script' # script => (pc = "RollingBack" /\ pc' = "Failed") ]_vars
  /\ []((pc = "ReExecuting" /\ lastUpd.cached)
          => (script[cur] = lastUpd.pre /\ lastUpd.log = <<>>))

\* C19 witness: a run that started with the verdict cached has failed twice
\* and its rollback has changed the script.
CachedVerdictWitness ==
  /\ pc = "Failed"
  /\ run0.cached
  /\ cnt.update >= 2
  /\ cnt.backup = 0
  /\ lastRb.log = <<"restore">>
  /\ script[cur] # lastRb.pre

====
